---------------------------- MODULE Spec2Model ----------------------------
(***************************************************************************)
(* Crossword CSP solver of src/3-crossword/generate.py (CrosswordCreator): *)
(* node consistency, AC-3 arc consistency and backtracking search over a   *)
(* puzzle structure (variables, vocabulary, overlaps).                     *)
(*                                                                         *)
(* Spec runs solve() on a puzzle; SpecAc3 runs ac3() twice, SpecRevise one  *)
(* revise(x, y) and SpecConsistent one consistent(assignment), each on      *)
(* freely drawn domains or assignments.  SpecOrder runs ac3() from the same *)
(* domains twice, the second time taking the arcs in any order; SpecGiven  *)
(* runs ac3(arcs) on a given list of arcs; SpecHeuristics runs one          *)
(* select_unassigned_variable or one order_domain_values.                  *)
(*                                                                         *)
(* Words are sequences of letters; Python's 0-based index i is i+1 here.   *)
(* Python sets and dicts iterate in an order the language does not fix:    *)
(* the iteration order of the variables is the sequence `order`, chosen    *)
(* once, and where the order of a set of words can change an outcome the   *)
(* outcome is a nondeterministic choice.                                   *)
(***************************************************************************)
EXTENDS Integers, Sequences, FiniteSets, TLC

\* ------------------------------------------------------------------ bounds
\* Largest vocabulary of a puzzle handed to solve().
MaxVocab == 4
\* Largest number of distinct words over all domains when the domains are
\* drawn freely (the unit specifications of ac3, revise and consistent).
MaxDomWords == 2

\* Longest list of arcs handed to ac3(arcs).
MaxArcs == 2

\* The words a vocabulary, a domain or an assignment is drawn from: two of
\* length 2 and four of length 3 that differ at the first, the middle and the
\* last character, the offsets at which the puzzles below cross.
WordUniverse ==
    { << "A", "B" >>, << "B", "A" >>,
      << "A", "B", "A" >>, << "A", "A", "B" >>,
      << "B", "A", "A" >>, << "B", "A", "B" >> }

Vocabularies == {W \in SUBSET WordUniverse : Cardinality(W) <= MaxVocab}

\* overlaps[x, y] is None: no shared cell.
NoOverlap == << >>

\* ------------------------------------------------------- puzzle structure
\* crossword.py (Variable, Crossword) is not among the sources; the
\* structure follows the specification's data model: a variable is
\* (row, column, direction, length), and two distinct variables overlap at
\* offsets (i, j) when cell i of the one is cell j of the other.
Var(i, j, direction, length) ==
    [i |-> i, j |-> j, direction |-> direction, length |-> length]

Cells(v) ==
    [k \in 1..v.length |->
        << v.i + (IF v.direction = "down" THEN k - 1 ELSE 0),
           v.j + (IF v.direction = "across" THEN k - 1 ELSE 0) >>]

SharedCell(x, y) ==
    LET shared == {p \in (1..x.length) \X (1..y.length) :
                       Cells(x)[p[1]] = Cells(y)[p[2]]}
    IN  IF shared = {} THEN NoOverlap
        ELSE LET p == CHOOSE q \in shared : TRUE IN << p[1] - 1, p[2] - 1 >>

\* One across slot of length 3.
PSingle == {Var(0, 0, "across", 3)}
\* Two crossing slots of length 3: character 1 of ACROSS is character 0 of DOWN.
PCross == {Var(0, 0, "across", 3), Var(0, 1, "down", 3)}
\* A chain of three slots of length 3: ACROSS - DOWN - ACROSS.
PChain == {Var(0, 0, "across", 3), Var(0, 2, "down", 3), Var(2, 2, "across", 3)}
\* Two slots that share no cell.
PApart == {Var(0, 0, "across", 3), Var(2, 0, "across", 2)}
\* A short DOWN slot crossing the first cell of ACROSS.
PCorner == {Var(0, 0, "across", 3), Var(0, 0, "down", 2)}

Puzzles == {PSingle, PCross, PChain, PApart, PCorner}

\* Two groups of slots: ACROSS(0,0) crossed by two DOWN slots, and further
\* down a short ACROSS slot crossed by one DOWN slot.
PGroups ==
    {Var(0, 0, "across", 3), Var(0, 0, "down", 2), Var(0, 2, "down", 3),
     Var(4, 0, "across", 2), Var(4, 0, "down", 2)}


Orders(S) ==
    {s \in [1..Cardinality(S) -> S] : \A v \in S : \E k \in DOMAIN s : s[k] = v}

\* Where the iteration order of the variables plays no part, one order.
OneOrder(S) == CHOOSE s \in Orders(S) : TRUE

VARIABLES
    variables,  \* crossword.variables
    words,      \* crossword.words, the vocabulary
    overlaps,   \* crossword.overlaps, keyed by the pairs of distinct variables
    order,      \* iteration order of self.domains (a dict keyed by variable)
    domains,    \* self.domains
    pc,         \* position in solve / ac3 / backtrack
    nodeIdx,    \* enforce_node_consistency: variables of `order` already filtered
    arcs,       \* ac3: the worklist, a list of (x, y); pop() takes the last
    ac3Result,  \* what the last ac3() returned ("none" until it has)
    stack,      \* backtrack: the frames of the calls in progress
    callArg,    \* backtrack: the assignment of the call being entered
    ret,        \* backtrack: the value being returned
    result,     \* what solve() returned
    hist        \* observations for the properties (not program state)

vars == << variables, words, overlaps, order, domains, pc, nodeIdx, arcs, ac3Result,
           stack, callArg, ret, result, hist >>

\* crossword.overlaps as the structure computes it, once.
OverlapsOf(V) ==
    [p \in {q \in V \X V : q[1] # q[2]} |-> SharedCell(p[1], p[2])]

\* self.crossword.overlaps[x, y]
Overlaps(x, y) == overlaps[<< x, y >>]

neighbors(var) ==
    {v \in variables : v # var /\ Overlaps(v, var) # NoOverlap}

\* ------------------------------------------------- enforce_node_consistency
\* Mutant: keeps the words that are too short as well.
node_filter_AtMost(var, dom) == {word \in dom : Len(word) <= var.length}

\* Lines 103-107 for one variable: drop the words of the wrong length.
node_filter(var, dom) == {word \in dom : Len(word) = var.length}

\* ------------------------------------------------------------------ revise
\* Line 128 on one pair of words, x_word[i] == y_word[j]: an index past the
\* end of either word raises IndexError.
Raises(x_word, y_word, ov) ==
    ov[1] >= Len(x_word) \/ ov[2] >= Len(y_word)

\* Mutant: the two offsets of the overlap are used the wrong way round.
Matches_SwappedOffsets(x_word, y_word, ov) ==
    /\ ov[2] < Len(x_word) /\ ov[1] < Len(y_word)
    /\ x_word[ov[2] + 1] = y_word[ov[1] + 1]

Matches(x_word, y_word, ov) ==
    /\ ~Raises(x_word, y_word, ov)
    /\ x_word[ov[1] + 1] = y_word[ov[2] + 1]

\* Mutant: asks every word of y to agree, not some word.
hasCorresponding_All(x_word, x, y, doms) ==
    IF Overlaps(x, y) = NoOverlap THEN FALSE
    ELSE \A y_word \in doms[y] : Matches(x_word, y_word, Overlaps(x, y))

\* Lines 120-130 for one x_word: whether the inner loop leaves
\* hasCorresponding True.  With no overlap every y_word is skipped (line 125).
hasCorresponding(x_word, x, y, doms) ==
    IF Overlaps(x, y) = NoOverlap THEN FALSE
    ELSE \E y_word \in doms[y] : Matches(x_word, y_word, Overlaps(x, y))

\* The inner loop visits self.domains[y] in set order and stops at the first
\* match: it can end without raising when no word of y raises, or when a
\* matching word can come first; it can raise when some word of y raises.
WordCanFinish(x_word, x, y, doms) ==
    IF Overlaps(x, y) = NoOverlap THEN TRUE
    ELSE \/ \A y_word \in doms[y] : ~Raises(x_word, y_word, Overlaps(x, y))
         \/ \E y_word \in doms[y] : Matches(x_word, y_word, Overlaps(x, y))

WordCanRaise(x_word, x, y, doms) ==
    IF Overlaps(x, y) = NoOverlap THEN FALSE
    ELSE \E y_word \in doms[y] : Raises(x_word, y_word, Overlaps(x, y))

\* revise(x, y) when it returns: the domains it leaves and its return value.
revise(x, y, doms) ==
    LET kept == {x_word \in doms[x] : hasCorresponding(x_word, x, y, doms)}
    IN  [domains |-> [doms EXCEPT ![x] = kept], revised |-> kept # doms[x]]

ReviseCanReturn(x, y, doms) ==
    \A x_word \in doms[x] : WordCanFinish(x_word, x, y, doms)

\* revise(x, y) when it raises: the domains it may leave behind, the words
\* visited before the raising one having been kept or removed.
ReviseRaisedDomains(x, y, doms) ==
    {[doms EXCEPT ![x] = @ \ {w \in done : ~hasCorresponding(w, x, y, doms)}] :
        done \in UNION {SUBSET {w \in doms[x] \ {bad} : WordCanFinish(w, x, y, doms)} :
                          bad \in {b \in doms[x] : WordCanRaise(b, x, y, doms)}}}

\* --------------------------------------------------------------------- ac3
SeqOfPairs ==
    LET n == Len(order)
    IN  [k \in 1..(n * n) |-> << order[((k - 1) \div n) + 1], order[((k - 1) % n) + 1] >>]

IsArc(p) == p[1] # p[2] /\ Overlaps(p[1], p[2]) # NoOverlap

\* Mutant: each overlapping pair is listed in one direction only.
DefaultArcs_OneWay ==
    LET n == Len(order)
        Pairs == [k \in 1..(n * n) |->
                    << order[((k - 1) \div n) + 1], order[((k - 1) % n) + 1] >>]
        Forward(p) ==
            /\ p[1] # p[2]
            /\ Overlaps(p[1], p[2]) # NoOverlap
            /\ \E a \in 1..n, b \in 1..n : a < b /\ order[a] = p[1] /\ order[b] = p[2]
    IN  SelectSeq(Pairs, Forward)

\* Lines 146-150: every ordered pair of distinct overlapping variables.
DefaultArcs == SelectSeq(SeqOfPairs, IsArc)

\* Mutant: the arcs put back point the wrong way, (x, z) for (z, x).
Requeued_Reversed(x, y) ==
    LET IsZ(z) == z # x /\ z # y /\ Overlaps(x, z) # NoOverlap
        zs == SelectSeq(order, IsZ)
    IN  [k \in 1..Len(zs) |-> << x, zs[k] >>]

\* Mutant: nothing is put back on the worklist.
Requeued_None(x, y) == << >>

\* Lines 156-160: the arcs (z, x) appended after x's domain shrank.
Requeued(x, y) ==
    LET IsZ(z) == z # x /\ z # y /\ Overlaps(x, z) # NoOverlap
        zs == SelectSeq(order, IsZ)
    IN  [k \in 1..Len(zs) |-> << zs[k], x >>]

\* ---------------------------------------------------------------- search
\* An assignment (a dict) is a function from the assigned variables to words.
Extend(assignment, var, value) ==
    [v \in (DOMAIN assignment) \cup {var} |->
        IF v = var THEN value ELSE assignment[v]]

\* Lines 168-179.
assignment_complete(assignment) ==
    /\ Cardinality(DOMAIN assignment) = Cardinality(variables)
    /\ \A var \in variables :
          /\ var \in DOMAIN assignment
          /\ Len(assignment[var]) = var.length

\* Mutant: the values are not required to be distinct.
consistent_NoDistinct(assignment) ==
    /\ \A var \in DOMAIN assignment : Len(assignment[var]) = var.length
    /\ \A x \in variables, y \in variables :
          (/\ x # y
           /\ Overlaps(x, y) # NoOverlap
           /\ x \in DOMAIN assignment
           /\ y \in DOMAIN assignment)
          => assignment[x][Overlaps(x, y)[1] + 1] = assignment[y][Overlaps(x, y)[2] + 1]

\* Mutant: the overlap characters are not compared.
consistent_NoOverlapCheck(assignment) ==
    /\ Cardinality({assignment[v] : v \in DOMAIN assignment})
          = Cardinality(DOMAIN assignment)
    /\ \A var \in DOMAIN assignment : Len(assignment[var]) = var.length

\* Lines 189-207.  The overlap characters are read only after every word
\* passed the length check of lines 193-195.
consistent(assignment) ==
    /\ Cardinality({assignment[v] : v \in DOMAIN assignment})
          = Cardinality(DOMAIN assignment)
    /\ \A var \in DOMAIN assignment : Len(assignment[var]) = var.length
    /\ \A x \in variables, y \in variables :
          (/\ x # y
           /\ Overlaps(x, y) # NoOverlap
           /\ x \in DOMAIN assignment
           /\ y \in DOMAIN assignment)
          => assignment[x][Overlaps(x, y)[1] + 1] = assignment[y][Overlaps(x, y)[2] + 1]

\* Mutant: the assigned neighbors are counted as well.
count_rule_outs_AllNeighbors(value, var, assignment, doms) ==
    Cardinality({p \in UNION {{<< n, word >> : word \in doms[n]} :
                                n \in neighbors(var)} :
                    value[Overlaps(var, p[1])[1] + 1] # p[2][Overlaps(var, p[1])[2] + 1]})

\* Lines 216-228: over the neighbors not in the assignment, the words of
\* their domains whose overlap character differs from the value's.
count_rule_outs(value, var, assignment, doms) ==
    Cardinality({p \in UNION {{<< n, word >> : word \in doms[n]} :
                                n \in neighbors(var) \ DOMAIN assignment} :
                    value[Overlaps(var, p[1])[1] + 1] # p[2][Overlaps(var, p[1])[2] + 1]})

\* Line 230: sorted() over a set is stable on the set's own order, so values
\* with equal counts may come in any order.
order_domain_values(var, assignment, doms) ==
    LET key == [value \in doms[var] |-> count_rule_outs(value, var, assignment, doms)]
    IN  {s \in Orders(doms[var]) :
            \A k \in 1..(Len(s) - 1) : key[s[k]] <= key[s[k + 1]]}

domain_size(var, doms) == Cardinality(doms[var])

degree(var) == Cardinality(neighbors(var))

\* Line 249.
unassigned(assignment) ==
    LET Free(v) == v \notin DOMAIN assignment IN SelectSeq(order, Free)

KeyLess(u, v, doms) ==
    \/ domain_size(u, doms) < domain_size(v, doms)
    \/ /\ domain_size(u, doms) = domain_size(v, doms)
       /\ degree(u) > degree(v)

\* Line 252: min() returns the first element of the list with the least key
\* (domain_size, -degree).
select_unassigned_variable(assignment, doms) ==
    LET un == unassigned(assignment)
        k == CHOOSE i \in DOMAIN un :
                /\ \A l \in DOMAIN un : ~KeyLess(un[l], un[i], doms)
                /\ \A l \in 1..(i - 1) : KeyLess(un[i], un[l], doms)
    IN  un[k]

NoResult == [found |-> FALSE, assignment |-> << >>]

Top == stack[Len(stack)]

Pop == SubSeq(stack, 1, Len(stack) - 1)

\* What the specification calls a complete, consistent assignment of the
\* puzzle over its vocabulary, stated on its own.
CompleteConsistent(a) ==
    /\ DOMAIN a = variables
    /\ \A v \in variables : a[v] \in words /\ Len(a[v]) = v.length
    /\ \A x \in variables, y \in variables : x # y => a[x] # a[y]
    /\ \A x \in variables, y \in variables :
          (x # y /\ Overlaps(x, y) # NoOverlap)
          => a[x][Overlaps(x, y)[1] + 1] = a[y][Overlaps(x, y)[2] + 1]

\* Observations: the complete consistent assignments of the puzzle, found by
\* enumeration; whether backtrack was entered; the ac3 runs so far, the
\* domains the first run started from, and what it left and returned; the
\* arguments and the return value of a single revise or consistent call;
\* what a single select_unassigned_variable or order_domain_values returned.
NoHistory(doms) ==
    [solutions |-> {a \in [variables -> words] : CompleteConsistent(a)},
     btCalled |-> FALSE, ac3Runs |-> 0, start |-> doms, firstDomains |-> doms,
     firstResult |-> "none", call |-> << >>, returned |-> FALSE,
     selected |-> << >>, values |-> << >>]

\* ------------------------------------------------------------------- solve
\* The constructor: every domain is the whole vocabulary (lines 13-16).
Init ==
    /\ variables \in Puzzles
    /\ overlaps = OverlapsOf(variables)
    /\ words \in Vocabularies
    /\ order \in Orders(variables)
    /\ domains = [v \in variables |-> words]
    /\ pc = "node"
    /\ nodeIdx = 0
    /\ arcs = << >>
    /\ ac3Result = "none"
    /\ stack = << >>
    /\ callArg = << >>
    /\ ret = NoResult
    /\ result = NoResult
    /\ hist = NoHistory(domains)

\* enforce_node_consistency, one variable of the outer loop (lines 102-107).
enforce_node_consistency ==
    /\ pc = "node"
    /\ nodeIdx < Len(order)
    /\ LET var == order[nodeIdx + 1]
       IN  domains' = [domains EXCEPT ![var] = node_filter(var, @)]
    /\ nodeIdx' = nodeIdx + 1
    /\ UNCHANGED << variables, words, overlaps, order, pc, arcs, ac3Result, stack,
                    callArg, ret, result, hist >>

\* solve, line 93: node consistency is done, ac3() is called.
solve_ac3 ==
    /\ pc = "node"
    /\ nodeIdx = Len(order)
    /\ pc' = "ac3_init"
    /\ UNCHANGED << variables, words, overlaps, order, domains, nodeIdx, arcs, ac3Result,
                    stack, callArg, ret, result, hist >>

\* ac3, lines 145-150: arcs is None, the default list is built.
ac3_init ==
    /\ pc = "ac3_init"
    /\ arcs' = DefaultArcs
    /\ ac3Result' = "none"
    /\ pc' = "ac3_loop"
    /\ hist' = [hist EXCEPT !.ac3Runs = @ + 1,
                            !.start = IF hist.ac3Runs = 0 THEN domains ELSE @]
    /\ UNCHANGED << variables, words, overlaps, order, domains, nodeIdx, stack, callArg,
                    ret, result >>

\* ac3, lines 151-160: one turn of the while loop with revise returning.
ac3_pop ==
    /\ pc = "ac3_loop"
    /\ arcs # << >>
    /\ LET x == arcs[Len(arcs)][1]
           y == arcs[Len(arcs)][2]
           rest == SubSeq(arcs, 1, Len(arcs) - 1)
           r == revise(x, y, domains)
       IN  /\ ReviseCanReturn(x, y, domains)
           /\ domains' = r.domains
           /\ IF r.revised /\ r.domains[x] = {}
              THEN /\ arcs' = rest
                   /\ ac3Result' = "False"
                   /\ pc' = "ac3_ret"
              ELSE /\ arcs' = IF r.revised THEN rest \o Requeued(x, y) ELSE rest
                   /\ UNCHANGED << ac3Result, pc >>
    /\ UNCHANGED << variables, words, overlaps, order, nodeIdx, stack, callArg, ret,
                    result, hist >>

\* ac3, line 161: the worklist is empty.
ac3_return ==
    /\ pc = "ac3_loop"
    /\ arcs = << >>
    /\ ac3Result' = "True"
    /\ pc' = "ac3_ret"
    /\ UNCHANGED << variables, words, overlaps, order, domains, nodeIdx, arcs, stack,
                    callArg, ret, result, hist >>

\* solve, line 94: the value ac3() returned is dropped and backtrack(dict())
\* is called.
solve_backtrack ==
    /\ pc = "ac3_ret"
    /\ callArg' = << >>
    /\ pc' = "bt_call"
    /\ UNCHANGED << variables, words, overlaps, order, domains, nodeIdx, arcs, ac3Result,
                    stack, ret, result, hist >>

\* backtrack, lines 264-265: the assignment is complete and is returned.
backtrack_complete ==
    /\ pc = "bt_call"
    /\ assignment_complete(callArg)
    /\ ret' = [found |-> TRUE, assignment |-> callArg]
    /\ pc' = "bt_ret"
    /\ hist' = [hist EXCEPT !.btCalled = TRUE]
    /\ UNCHANGED << variables, words, overlaps, order, domains, nodeIdx, arcs, ac3Result,
                    stack, callArg, result >>

\* backtrack, lines 268-270: a variable is selected and its values ordered.
\* The frame keeps the set of values already tried: the list that
\* order_domain_values returned is any of the sorted lists that starts with
\* them, and the domains do not change while the search runs.
backtrack_select ==
    /\ pc = "bt_call"
    /\ ~assignment_complete(callArg)
    /\ unassigned(callArg) # << >>
    /\ stack' = Append(stack,
                 [assignment |-> callArg,
                  var |-> select_unassigned_variable(callArg, domains),
                  tried |-> {}])
    /\ pc' = "bt_loop"
    /\ hist' = [hist EXCEPT !.btCalled = TRUE]
    /\ UNCHANGED << variables, words, overlaps, order, domains, nodeIdx, arcs, ac3Result,
                    callArg, ret, result >>

\* The values that can come next in the loop of line 270.
NextValues(frame) ==
    {values[Cardinality(frame.tried) + 1] :
        values \in {s \in order_domain_values(frame.var, frame.assignment, domains) :
                      /\ Cardinality(frame.tried) < Len(s)
                      /\ {s[k] : k \in 1..Cardinality(frame.tried)} = frame.tried}}

\* Mutant: the value is written into the caller's own assignment
\* (assignment[var] = value, no copy).
backtrack_try_InPlace ==
    /\ pc = "bt_loop"
    /\ \E value \in NextValues(Top) :
          LET new_assignment == Extend(Top.assignment, Top.var, value)
          IN  /\ stack' = [stack EXCEPT ![Len(stack)].tried = @ \cup {value},
                                        ![Len(stack)].assignment = new_assignment]
              /\ IF consistent(new_assignment)
                 THEN callArg' = new_assignment /\ pc' = "bt_call"
                 ELSE UNCHANGED << callArg, pc >>
    /\ UNCHANGED << variables, words, overlaps, order, domains, nodeIdx, arcs, ac3Result,
                    ret, result, hist >>

\* Mutant: a value that passes consistent is also made the only word of
\* the variable's domain.
backtrack_try_NarrowsDomain ==
    /\ pc = "bt_loop"
    /\ \E value \in NextValues(Top) :
          LET new_assignment == Extend(Top.assignment, Top.var, value)
          IN  /\ stack' = [stack EXCEPT ![Len(stack)].tried = @ \cup {value}]
              /\ IF consistent(new_assignment)
                 THEN /\ callArg' = new_assignment
                      /\ pc' = "bt_call"
                      /\ domains' = [domains EXCEPT ![Top.var] = {value}]
                 ELSE UNCHANGED << callArg, pc, domains >>
    /\ UNCHANGED << variables, words, overlaps, order, nodeIdx, arcs, ac3Result,
                    ret, result, hist >>

\* backtrack, lines 270-275: the next value is tried on a copy of the
\* assignment; a consistent copy is handed to a recursive call.
backtrack_try ==
    /\ pc = "bt_loop"
    /\ \E value \in NextValues(Top) :
          LET new_assignment == Extend(Top.assignment, Top.var, value)
          IN  /\ stack' = [stack EXCEPT ![Len(stack)].tried = @ \cup {value}]
              /\ IF consistent(new_assignment)
                 THEN callArg' = new_assignment /\ pc' = "bt_call"
                 ELSE UNCHANGED << callArg, pc >>
    /\ UNCHANGED << variables, words, overlaps, order, domains, nodeIdx, arcs, ac3Result,
                    ret, result, hist >>

\* backtrack, line 278: every value was tried.
backtrack_exhausted ==
    /\ pc = "bt_loop"
    /\ Top.tried = domains[Top.var]
    /\ stack' = Pop
    /\ ret' = NoResult
    /\ pc' = "bt_ret"
    /\ UNCHANGED << variables, words, overlaps, order, domains, nodeIdx, arcs, ac3Result,
                    callArg, result, hist >>

\* Mutant: whatever the recursive call returned is returned at once
\* (return self.backtrack(new_assignment)).
backtrack_resume_ReturnsAtOnce ==
    /\ pc = "bt_ret"
    /\ stack # << >>
    /\ stack' = SubSeq(stack, 1, Len(stack) - 1)
    /\ UNCHANGED << variables, words, overlaps, order, domains, pc, nodeIdx, arcs,
                    ac3Result, callArg, ret, result, hist >>

\* backtrack, lines 275-277: a recursive call returned to its caller's loop.
backtrack_resume ==
    /\ pc = "bt_ret"
    /\ stack # << >>
    /\ IF ret.found
       THEN stack' = Pop /\ UNCHANGED pc
       ELSE pc' = "bt_loop" /\ UNCHANGED stack
    /\ UNCHANGED << variables, words, overlaps, order, domains, nodeIdx, arcs, ac3Result,
                    callArg, ret, result, hist >>

\* solve, line 94: the outermost backtrack returned.
solve_return ==
    /\ pc = "bt_ret"
    /\ stack = << >>
    /\ result' = ret
    /\ pc' = "done"
    /\ UNCHANGED << variables, words, overlaps, order, domains, nodeIdx, arcs, ac3Result,
                    stack, callArg, ret, hist >>

Next ==
    \/ enforce_node_consistency
    \/ solve_ac3
    \/ ac3_init
    \/ ac3_pop
    \/ ac3_return
    \/ solve_backtrack
    \/ backtrack_complete
    \/ backtrack_select
    \/ backtrack_try
    \/ backtrack_exhausted
    \/ backtrack_resume
    \/ solve_return

Spec == Init /\ [][Next]_vars

\* ---------------------------------------------- ac3 on arbitrary domains
\* Domains drawn freely over at most MaxDomWords words of any length.
FreeDomains(S) ==
    UNION {{d \in [S -> SUBSET W] : UNION {d[v] : v \in S} = W} :
             W \in {V \in SUBSET WordUniverse : Cardinality(V) <= MaxDomWords}}

InitFree(at, anyOrder) ==
    /\ variables \in Puzzles
    /\ overlaps = OverlapsOf(variables)
    /\ order \in IF anyOrder THEN Orders(variables) ELSE {OneOrder(variables)}
    /\ domains \in FreeDomains(variables)
    /\ words = UNION {domains[v] : v \in variables}
    /\ pc = at
    /\ nodeIdx = 0
    /\ arcs = << >>
    /\ ac3Result = "none"
    /\ stack = << >>
    /\ callArg = << >>
    /\ ret = NoResult
    /\ result = NoResult
    /\ hist = NoHistory(domains)

InitAc3 == InitFree("ac3_init", TRUE)

\* ac3, lines 152-153: revise raises IndexError, which ends ac3.
ac3_raise ==
    /\ pc = "ac3_loop"
    /\ arcs # << >>
    /\ domains' \in ReviseRaisedDomains(arcs[Len(arcs)][1], arcs[Len(arcs)][2], domains)
    /\ arcs' = SubSeq(arcs, 1, Len(arcs) - 1)
    /\ ac3Result' = "raised"
    /\ pc' = "raised"
    /\ UNCHANGED << variables, words, overlaps, order, nodeIdx, stack, callArg, ret,
                    result, hist >>

\* A caller runs ac3() a second time on the domains the first run left.
ac3_again ==
    /\ pc = "ac3_ret"
    /\ hist.ac3Runs = 1
    /\ hist' = [hist EXCEPT !.firstDomains = domains, !.firstResult = ac3Result]
    /\ pc' = "ac3_init"
    /\ UNCHANGED << variables, words, overlaps, order, domains, nodeIdx, arcs, ac3Result,
                    stack, callArg, ret, result >>

NextAc3 ==
    \/ ac3_init
    \/ ac3_pop
    \/ ac3_raise
    \/ ac3_return
    \/ ac3_again

SpecAc3 == InitAc3 /\ [][NextAc3]_vars

\* ------------------------------------------- ac3 with another worklist order
\* The first run is ac3 as written (pop() takes the last arc).  The second
\* starts again from the same domains and takes any arc of the worklist.
ac3_pop_lifo ==
    /\ hist.ac3Runs = 1
    /\ ac3_pop

ac3_raise_lifo ==
    /\ hist.ac3Runs = 1
    /\ ac3_raise

\* The worklist without its k-th arc.
Without(k) == SubSeq(arcs, 1, k - 1) \o SubSeq(arcs, k + 1, Len(arcs))

\* Lines 151-160 with line 152 taking the k-th arc, any k.
ac3_pop_any ==
    /\ pc = "ac3_loop"
    /\ hist.ac3Runs = 2
    /\ \E k \in 1..Len(arcs) :
          LET x == arcs[k][1]
              y == arcs[k][2]
              r == revise(x, y, domains)
          IN  /\ ReviseCanReturn(x, y, domains)
              /\ domains' = r.domains
              /\ IF r.revised /\ r.domains[x] = {}
                 THEN /\ arcs' = Without(k)
                      /\ ac3Result' = "False"
                      /\ pc' = "ac3_ret"
                 ELSE /\ arcs' = IF r.revised THEN Without(k) \o Requeued(x, y)
                                              ELSE Without(k)
                      /\ UNCHANGED << ac3Result, pc >>
    /\ UNCHANGED << variables, words, overlaps, order, nodeIdx, stack, callArg, ret,
                    result, hist >>

\* Lines 152-153 with any arc taken: revise raises IndexError.
ac3_raise_any ==
    /\ pc = "ac3_loop"
    /\ hist.ac3Runs = 2
    /\ \E k \in 1..Len(arcs) :
          /\ domains' \in ReviseRaisedDomains(arcs[k][1], arcs[k][2], domains)
          /\ arcs' = Without(k)
    /\ ac3Result' = "raised"
    /\ pc' = "raised"
    /\ UNCHANGED << variables, words, overlaps, order, nodeIdx, stack, callArg, ret,
                    result, hist >>

\* A caller restores the domains the first run started from and runs ac3()
\* on them once more.
ac3_restart ==
    /\ pc = "ac3_ret"
    /\ hist.ac3Runs = 1
    /\ hist' = [hist EXCEPT !.firstDomains = domains, !.firstResult = ac3Result]
    /\ domains' = hist.start
    /\ pc' = "ac3_init"
    /\ UNCHANGED << variables, words, overlaps, order, nodeIdx, arcs, ac3Result,
                    stack, callArg, ret, result >>

NextOrder ==
    \/ ac3_init
    \/ ac3_pop_lifo
    \/ ac3_raise_lifo
    \/ ac3_pop_any
    \/ ac3_raise_any
    \/ ac3_return
    \/ ac3_restart

SpecOrder == InitAc3 /\ [][NextOrder]_vars

\* ------------------------------------------------- ac3 on a given arc list
\* ac3(arcs) with arcs not None: any list of pairs of distinct variables,
\* overlapping or not, repeated pairs included.
ArcLists(S) ==
    UNION {[1..n -> {p \in S \X S : p[1] # p[2]}] : n \in 0..MaxArcs}

InitGiven == InitFree("ac3_args", FALSE)

\* Line 145: arcs is not None, the loop starts on the list as given.
ac3_given ==
    /\ pc = "ac3_args"
    /\ arcs' \in ArcLists(variables)
    /\ pc' = "ac3_loop"
    /\ hist' = [hist EXCEPT !.ac3Runs = 1]
    /\ UNCHANGED << variables, words, overlaps, order, domains, nodeIdx, ac3Result,
                    stack, callArg, ret, result >>

NextGiven ==
    \/ ac3_given
    \/ ac3_pop
    \/ ac3_raise
    \/ ac3_return

\* The loop is sequential code: while a step is possible, one is taken.
SpecGiven == InitGiven /\ [][NextGiven]_vars /\ WF_vars(NextGiven)

\* ------------------------------------------------------- revise on its own
InitRevise == InitFree("revise", FALSE)

\* One call revise(x, y) on two distinct variables that returns.
revise_call ==
    /\ pc = "revise"
    /\ \E x \in variables, y \in variables :
          /\ x # y
          /\ ReviseCanReturn(x, y, domains)
          /\ domains' = revise(x, y, domains).domains
          /\ hist' = [hist EXCEPT !.call = << x, y >>,
                                  !.returned = revise(x, y, domains).revised]
    /\ pc' = "revise_ret"
    /\ UNCHANGED << variables, words, overlaps, order, nodeIdx, arcs, ac3Result, stack,
                    callArg, ret, result >>

\* One call revise(x, y) that raises IndexError at line 128.
revise_raise ==
    /\ pc = "revise"
    /\ \E x \in variables, y \in variables :
          /\ x # y
          /\ domains' \in ReviseRaisedDomains(x, y, domains)
          /\ hist' = [hist EXCEPT !.call = << x, y >>]
    /\ pc' = "raised"
    /\ UNCHANGED << variables, words, overlaps, order, nodeIdx, arcs, ac3Result, stack,
                    callArg, ret, result >>

NextRevise ==
    \/ revise_call
    \/ revise_raise

SpecRevise == InitRevise /\ [][NextRevise]_vars

\* --------------------------------------------------- consistent on its own
\* Any assignment of words of the universe to some of the variables.
Assignments(S) ==
    UNION {[D -> WordUniverse] : D \in SUBSET S}

InitConsistent ==
    /\ variables \in Puzzles
    /\ overlaps = OverlapsOf(variables)
    /\ order = OneOrder(variables)
    /\ callArg \in Assignments(variables)
    /\ words = {callArg[v] : v \in DOMAIN callArg}
    /\ domains = [v \in variables |-> words]
    /\ pc = "consistent"
    /\ nodeIdx = 0
    /\ arcs = << >>
    /\ ac3Result = "none"
    /\ stack = << >>
    /\ ret = NoResult
    /\ result = NoResult
    /\ hist = NoHistory(domains)

\* One call consistent(assignment).
consistent_call ==
    /\ pc = "consistent"
    /\ hist' = [hist EXCEPT !.returned = consistent(callArg)]
    /\ pc' = "consistent_ret"
    /\ UNCHANGED << variables, words, overlaps, order, domains, nodeIdx, arcs, ac3Result,
                    stack, callArg, ret, result >>

NextConsistent == consistent_call

SpecConsistent == InitConsistent /\ [][NextConsistent]_vars

\* ------------------------------------- the search heuristics on their own
\* Domains as the search finds them: node consistency has run, so a domain
\* holds words of its variable's length only; beyond that any subsets.
SearchDomains(S) ==
    UNION {{d \in [S -> SUBSET W] :
               /\ \A v \in S : d[v] = node_filter(v, d[v])
               /\ UNION {d[v] : v \in S} = W} :
             W \in {V \in SUBSET WordUniverse : Cardinality(V) <= MaxDomWords}}

\* The assignments backtrack is called with: words of the variables' own
\* domains that passed consistent (line 274), or the empty dict.
SearchAssignments ==
    {a \in UNION {[D -> words] : D \in SUBSET variables} :
        /\ \A v \in DOMAIN a : a[v] \in domains[v]
        /\ consistent(a)}

InitHeuristics ==
    /\ variables \in Puzzles \cup {PGroups}
    /\ overlaps = OverlapsOf(variables)
    /\ order \in IF Cardinality(variables) <= 2 THEN Orders(variables)
                                               ELSE {OneOrder(variables)}
    /\ domains \in SearchDomains(variables)
    /\ words = UNION {domains[v] : v \in variables}
    /\ callArg \in SearchAssignments
    /\ pc = "search"
    /\ nodeIdx = 0
    /\ arcs = << >>
    /\ ac3Result = "none"
    /\ stack = << >>
    /\ ret = NoResult
    /\ result = NoResult
    /\ hist = NoHistory(domains)

\* One call select_unassigned_variable(assignment) with a variable left.
select_call ==
    /\ pc = "search"
    /\ unassigned(callArg) # << >>
    /\ hist' = [hist EXCEPT !.selected = select_unassigned_variable(callArg, domains)]
    /\ pc' = "select_ret"
    /\ UNCHANGED << variables, words, overlaps, order, domains, nodeIdx, arcs, ac3Result,
                    stack, callArg, ret, result >>

\* One call order_domain_values(var, assignment) on an unassigned variable.
order_call ==
    /\ pc = "search"
    /\ \E var \in variables \ DOMAIN callArg :
          \E values \in order_domain_values(var, callArg, domains) :
              hist' = [hist EXCEPT !.call = var, !.values = values]
    /\ pc' = "order_ret"
    /\ UNCHANGED << variables, words, overlaps, order, domains, nodeIdx, arcs, ac3Result,
                    stack, callArg, ret, result >>

NextHeuristics ==
    \/ select_call
    \/ order_call

SpecHeuristics == InitHeuristics /\ [][NextHeuristics]_vars

\* ============================================================== properties
Solutions == hist.solutions

NodeConsistentDomain(v) == {w \in words : Len(w) = v.length}

ArcConsistent(x, y) ==
    \A w \in domains[x] : \E u \in domains[y] :
        w[Overlaps(x, y)[1] + 1] = u[Overlaps(x, y)[2] + 1]

SomeDomainEmpty == \E v \in variables : domains[v] = {}

\* ac3 removed a word that node consistency had left.
PrunedByAc3 == \E v \in variables : domains[v] # NodeConsistentDomain(v)

\* C1: whenever solve() returns an assignment, it maps every variable to a
\* vocabulary word of the variable's length, no two variables share a word,
\* and every overlapping pair agrees on the shared character.
C1_SolveReturnsCompleteConsistent ==
    (pc = "done" /\ result.found)
    => CompleteConsistent(result.assignment)

\* solve() returned an assignment of the chain of three slots over a
\* vocabulary of three words.
C1_Witness ==
    /\ pc = "done"
    /\ result.found
    /\ variables = PChain
    /\ Cardinality(words) = 3

\* C2: when the puzzle has a complete consistent assignment over its
\* vocabulary, solve() returns an assignment; it returns None only when
\* there is none.
C2_SolveFindsASolution ==
    pc = "done" => (Solutions # {} => result.found)

\* A solvable puzzle whose domains ac3 pruned, solved.
C2_Witness ==
    /\ pc = "done"
    /\ Solutions # {}
    /\ PrunedByAc3
    /\ result.found

\* C3 (as claimed): when propagation leaves some variable with an empty
\* domain, solve() reports no solution and backtrack is never called.
C3_NoSearchOnEmptyDomain ==
    (pc \in {"bt_call", "bt_loop", "bt_ret", "done"} /\ SomeDomainEmpty)
    => (~hist.btCalled /\ (pc = "done" => ~result.found))

\* C4: after enforce_node_consistency() the domain of every variable is
\* exactly the set of vocabulary words of the variable's length.
C4_NodeConsistencyExact ==
    (pc = "node" /\ nodeIdx = Len(order))
    => \A v \in variables : domains[v] = NodeConsistentDomain(v)

\* Node consistency has run over two variables of different lengths, removing
\* a word from each and keeping one in each.
C4_Witness ==
    /\ pc = "node"
    /\ nodeIdx = Len(order)
    /\ \E u \in variables, v \in variables :
          /\ u.length # v.length
          /\ domains[u] # {} /\ domains[u] # words
          /\ domains[v] # {} /\ domains[v] # words

\* C5: after ac3() with the default arcs returns True on node-consistent
\* domains, every word of x has a word of y agreeing at the overlap, for
\* every ordered pair (x, y) of overlapping variables.
C5_Ac3TrueIsArcConsistent ==
    (pc = "ac3_ret" /\ ac3Result = "True")
    => \A x \in variables, y \in variables :
          (x # y /\ Overlaps(x, y) # NoOverlap) => ArcConsistent(x, y)

\* ac3 returned True after pruning, in the chain puzzle, leaving no domain empty.
C5_Witness ==
    /\ pc = "ac3_ret"
    /\ ac3Result = "True"
    /\ variables = PChain
    /\ PrunedByAc3
    /\ ~SomeDomainEmpty

\* C6: at every step of enforce_node_consistency and ac3, the word that any
\* complete consistent assignment gives a variable is still in the
\* variable's domain.
C6_PropagationKeepsSolutions ==
    \A a \in Solutions : \A v \in variables : a[v] \in domains[v]

\* ac3 pruned the domains of a solvable puzzle.
C6_Witness ==
    /\ pc = "ac3_ret"
    /\ Solutions # {}
    /\ PrunedByAc3

\* The defects of an assignment that the specification names.
HasDuplicate(a) ==
    \E u \in DOMAIN a, v \in DOMAIN a : u # v /\ a[u] = a[v]

HasLengthMismatch(a) ==
    \E v \in DOMAIN a : Len(a[v]) # v.length

HasOverlapMismatch(a) ==
    \E x \in DOMAIN a, y \in DOMAIN a :
        /\ x # y
        /\ Overlaps(x, y) # NoOverlap
        /\ Len(a[x]) > Overlaps(x, y)[1]
        /\ Len(a[y]) > Overlaps(x, y)[2]
        /\ a[x][Overlaps(x, y)[1] + 1] # a[y][Overlaps(x, y)[2] + 1]

\* C7: consistent(assignment) returns False when two variables hold the same
\* word, or a word's length differs from its variable's, or two assigned
\* overlapping variables disagree at the overlap; it returns True otherwise,
\* the empty and the partial assignments included.
C7_ConsistentDecidesDefects ==
    pc = "consistent_ret"
    => (hist.returned <=> ~(\/ HasDuplicate(callArg)
                            \/ HasLengthMismatch(callArg)
                            \/ HasOverlapMismatch(callArg)))

\* consistent rejected an assignment whose only defect is an overlap mismatch.
C7_Witness ==
    /\ pc = "consistent_ret"
    /\ ~hist.returned
    /\ HasOverlapMismatch(callArg)
    /\ ~HasDuplicate(callArg)
    /\ ~HasLengthMismatch(callArg)

\* C8 (as claimed): a second ac3() leaves the domains the first one left,
\* whether the first returned True or False.
C8_Ac3Idempotent ==
    (pc = "ac3_ret" /\ hist.ac3Runs = 2) => domains = hist.firstDomains

\* C8 (amended): when the first ac3() returned True, a second ac3() removes
\* no word and returns True.
C8_Ac3IdempotentAfterTrue ==
    (pc \in {"ac3_loop", "ac3_ret", "raised"} /\ hist.ac3Runs = 2
        /\ hist.firstResult = "True")
    => (domains = hist.firstDomains /\ pc # "raised" /\ ac3Result # "False")

\* The first run pruned a domain and returned True; the second has returned.
C8_Witness ==
    /\ pc = "ac3_ret"
    /\ hist.ac3Runs = 2
    /\ hist.firstResult = "True"
    /\ hist.firstDomains # hist.start
    /\ ac3Result = "True"

\* C9 (as claimed): ac3() returns True exactly when no domain is empty as
\* it returns.
C9_TrueIffNoEmptyDomain ==
    pc = "ac3_ret" => (ac3Result = "True" <=> ~SomeDomainEmpty)

\* C10 (as claimed): revise(x, y) on variables that do not overlap changes
\* no domain and returns False.
C10_ReviseNoOverlapNoOp ==
    (pc = "revise_ret" /\ Overlaps(hist.call[1], hist.call[2]) = NoOverlap)
    => (domains = hist.start /\ ~hist.returned)

\* The words of x that some word of y supports at the overlap (i, j) of x
\* and y, stated on the domains the call started from.
Supported(x, y, doms) ==
    {w \in doms[x] :
        \E u \in doms[y] :
            /\ Len(w) > Overlaps(x, y)[1]
            /\ Len(u) > Overlaps(x, y)[2]
            /\ w[Overlaps(x, y)[1] + 1] = u[Overlaps(x, y)[2] + 1]}

\* C11: for overlapping x and y, revise(x, y) leaves in x's domain exactly
\* the former words that some word of y's domain agrees with at the overlap,
\* changes no other domain, and returns True exactly when it removed a word.
C11_ReviseExact ==
    (pc = "revise_ret" /\ Overlaps(hist.call[1], hist.call[2]) # NoOverlap)
    => LET x == hist.call[1]
           y == hist.call[2]
       IN  /\ domains[x] = Supported(x, y, hist.start)
           /\ \A v \in variables \ {x} : domains[v] = hist.start[v]
           /\ hist.returned <=> (domains[x] # hist.start[x])

\* revise on an overlapping pair removed one word of x and kept another.
C11_Witness ==
    /\ pc = "revise_ret"
    /\ Overlaps(hist.call[1], hist.call[2]) # NoOverlap
    /\ hist.returned
    /\ domains[hist.call[1]] # {}
    /\ domains[hist.call[1]] # hist.start[hist.call[1]]
    /\ domains[hist.call[2]] # {}

\* C12 (as claimed): from the same starting domains and the default arcs,
\* ac3() taking the arcs in any order leaves, when it returns, the domains
\* that ac3() taking the last arc first leaves.
C12_Ac3Confluent ==
    (pc = "ac3_ret" /\ hist.ac3Runs = 2) => domains = hist.firstDomains

\* C12 (amended): when ac3() returns True under one order of taking arcs,
\* it returns True and leaves the same domains under every order under
\* which it returns.
C12_Ac3ConfluentOnTrue ==
    (pc = "ac3_ret" /\ hist.ac3Runs = 2
        /\ (hist.firstResult = "True" \/ ac3Result = "True"))
    => (domains = hist.firstDomains /\ ac3Result = hist.firstResult)

\* Both runs pruned the chain puzzle and returned True.
C12_Witness ==
    /\ pc = "ac3_ret"
    /\ hist.ac3Runs = 2
    /\ variables = PChain
    /\ hist.firstResult = "True"
    /\ ac3Result = "True"
    /\ domains # hist.start
    /\ ~SomeDomainEmpty

\* Every turn of ac3's loop either removes a word from some domain or
\* leaves the domains alone and shortens the worklist.
TotalWords == Cardinality(UNION {{<< v, w >> : w \in domains[v]} : v \in variables})

Ac3TurnDecreases ==
    [][(pc = "ac3_loop" /\ pc' = "ac3_loop")
        => \/ TotalWords' < TotalWords
           \/ TotalWords' = TotalWords /\ Len(arcs') < Len(arcs)]_vars

\* Whatever the domains and the list of arcs, ac3's loop eventually stops:
\* ac3 returns, or an error raised by revise ends it.
Ac3LoopStops == <>(pc \in {"ac3_ret", "raised"})

\* C13 (as claimed): for any domains and any initial list of arcs, ac3
\* eventually stops by returning True or False.
C13_Ac3TerminatesReturning ==
    <>(pc = "ac3_ret" /\ ac3Result \in {"True", "False"})

\* The neighbors of v that the assignment leaves unassigned.
UnassignedNeighbors(v, a) ==
    {n \in variables \ DOMAIN a : n # v /\ Overlaps(n, v) # NoOverlap}

\* C14 (as claimed): select_unassigned_variable returns an unassigned
\* variable of least domain size and, among those, one with the most
\* unassigned neighbors.
C14_SelectMrvUnassignedDegree ==
    pc = "select_ret"
    => LET var == hist.selected
       IN  /\ var \in variables \ DOMAIN callArg
           /\ \A v \in variables \ DOMAIN callArg :
                 /\ Cardinality(domains[var]) <= Cardinality(domains[v])
                 /\ Cardinality(domains[var]) = Cardinality(domains[v])
                    => Cardinality(UnassignedNeighbors(var, callArg))
                         >= Cardinality(UnassignedNeighbors(v, callArg))

\* The words that choosing value for var rules out: the words in the domain
\* of an unassigned neighbor n whose character at the overlap differs from
\* the value's.
RuledOut(value, var, a) ==
    {p \in UNION {{n} \X domains[n] : n \in UnassignedNeighbors(var, a)} :
        value[Overlaps(var, p[1])[1] + 1] # p[2][Overlaps(var, p[1])[2] + 1]}

\* C15: order_domain_values(var, assignment) returns every word of var's
\* domain exactly once, in ascending order of the number of words it rules
\* out in the domains of var's unassigned neighbors; assigned neighbors
\* count for nothing.
C15_OrderDomainValuesSorted ==
    pc = "order_ret"
    => LET var == hist.call
           values == hist.values
       IN  /\ Len(values) = Cardinality(domains[var])
           /\ {values[k] : k \in 1..Len(values)} = domains[var]
           /\ \A k \in 1..Len(values), l \in 1..Len(values) :
                 k < l => Cardinality(RuledOut(values[k], var, callArg))
                            <= Cardinality(RuledOut(values[l], var, callArg))

\* Two values were ordered that rule out different numbers of words, for a
\* variable with an assigned neighbor whose domain holds a word that
\* disagrees with the first value.
C15_Witness ==
    /\ pc = "order_ret"
    /\ Len(hist.values) = 2
    /\ Cardinality(RuledOut(hist.values[1], hist.call, callArg))
          < Cardinality(RuledOut(hist.values[2], hist.call, callArg))
    /\ \E n \in DOMAIN callArg :
          /\ Overlaps(n, hist.call) # NoOverlap
          /\ \E word \in domains[n] :
                hist.values[1][Overlaps(hist.call, n)[1] + 1]
                    # word[Overlaps(hist.call, n)[2] + 1]

\* C16: from the call of backtrack by solve to its return, whatever the
\* search does (selecting a variable, ordering its values, testing an
\* assignment, recursing, returning), no domain changes: the domains stay
\* as ac3 left them.
C16_SearchKeepsDomains ==
    [][(pc \in {"ac3_ret", "bt_call", "bt_loop", "bt_ret"}) => (domains' = domains)]_vars

\* The search is two calls deep and has tried a value there, on domains
\* that ac3 pruned.
C16_Witness ==
    /\ pc = "bt_loop"
    /\ Len(stack) = 2
    /\ Top.tried # {}
    /\ PrunedByAc3

\* a extends b by a word for var alone.
ExtendsByOne(a, b, var) ==
    /\ var \notin DOMAIN b
    /\ DOMAIN a = DOMAIN b \cup {var}
    /\ \A v \in DOMAIN b : a[v] = b[v]

\* C17: backtrack never changes the assignment it was given: the
\* assignment of every call in progress stays what it was at the call,
\* through each trial and after each failed branch; the assignment of a
\* recursive call is the caller's extended by the one variable tried, and
\* has no duplicate, no length mismatch and no overlap mismatch.
C17_BacktrackCopiesAssignment ==
    [][/\ \A k \in 1..Len(stack) :
             k <= Len(stack') => stack'[k].assignment = stack[k].assignment
       /\ (pc' = "bt_call" /\ pc = "bt_loop")
             => /\ ExtendsByOne(callArg', Top.assignment, Top.var)
                /\ ~HasDuplicate(callArg')
                /\ ~HasLengthMismatch(callArg')
                /\ ~HasOverlapMismatch(callArg')]_vars

\* A branch failed: the call on a value that passed consistent returned
\* None to its caller's loop, one call below the outermost.
C17_Witness ==
    /\ pc = "bt_loop"
    /\ Len(stack) = 2
    /\ \E value \in Top.tried :
          /\ ~HasDuplicate(Extend(Top.assignment, Top.var, value))
          /\ ~HasOverlapMismatch(Extend(Top.assignment, Top.var, value))

\* C18 (as claimed): for any pair of variables and any domains, those that
\* node consistency has not filtered included, revise ends by returning a
\* boolean, never in an error.
C18_ReviseNeverRaises == pc # "raised"

====
